---- MODULE Spec2Model ----
(***************************************************************************)
(* RepoRecon audio bridge (backend/main.py, backend/tools.py).             *)
(*                                                                         *)
(* One client connection handled by websocket_gemini: the handler opens    *)
(* one Gemini Live session and runs two asyncio tasks,                     *)
(* receive_from_client (client -> upstream) and send_to_client             *)
(* (upstream -> client), until shutdown.                                   *)
(*                                                                         *)
(* Granularity: asyncio is cooperative, so one action is the code a task   *)
(* runs between two suspension points: it resumes from the await it was    *)
(* parked on (with that await's result or exception) and runs up to and    *)
(* including the call of the next awaited operation.  The collaborators    *)
(* (the upstream session, the client socket, the tool thread) are recorded *)
(* by the calls made on them, in call order.                               *)
(***************************************************************************)
EXTENDS Naturals, Sequences, FiniteSets, TLC

\* ------------------------------------------------------------------ bounds
\* Size of the input of one run: the client frames websocket.receive()
\* returns, plus the upstream events session.receive() yields, each counted
\* with its function calls and its parts.
MaxInputs == 4

\* ------------------------------------------------------- program constants
AVAILABLE_TOOLS == {"scout_github_issues", "analyze_issue_code"}

Tasks == {"receive_from_client", "send_to_client"}

\* ---------------------------------------------------------- input alphabets
\* bytes payloads: b"" and two one-byte chunks
EmptyBytes == <<>>
AudioChunks == {EmptyBytes, <<1>>, <<2>>}

EndTurnText == "{\"type\": \"end_turn\"}"
ClientTexts ==
    { EndTurnText, "{\"type\": \"ping\"}", "{}", "[1]", "null", "hello" }

\* ASGI messages websocket.receive() can return.  A key whose value is None
\* is left out of the record: message.get(key) is None exactly then.
ClientMessages ==
    { [type |-> "websocket.disconnect"], [type |-> "websocket.connect"],
      [type |-> "websocket.receive"] }
    \cup { [type |-> "websocket.receive", bytes |-> b] : b \in AudioChunks }
    \cup { [type |-> "websocket.receive", text |-> t] : t \in ClientTexts }

\* What awaiting websocket.receive() can do besides returning a message.
ReceiveErrors == {"WebSocketDisconnect", "RuntimeError"}

\* Function calls of an upstream tool_call event.
ArgSets ==
    { [repo_name |-> "a/b"], [repo_name |-> "a/b", issue_number |-> 42] }
ToolNames == AVAILABLE_TOOLS \cup {"deploy_code"}
CallIds == {"fc-1", "fc-2"}
FunctionCalls == [name : ToolNames, id : CallIds, args : ArgSets]

\* Parts of server_content.model_turn: inline_data.data is absent, empty or
\* audio bytes.
Parts == { [text |-> "hi"] } \cup { [inline_data |-> b] : b \in AudioChunks }

\* The upstream allocates correlation ids: the calls of one event carry
\* distinct ids.
CallSeqs ==
    { <<>> } \cup { <<c>> : c \in FunctionCalls }
    \cup { <<c, d>> : c \in { x \in FunctionCalls : x.id = "fc-1" },
                      d \in { x \in FunctionCalls : x.id = "fc-2" } }
PartSeqs ==
    { <<>> } \cup { <<p>> : p \in Parts }
    \cup { <<p, q>> : p \in Parts, q \in Parts }

\* A LiveServerMessage carries a tool_call, a server_content or neither
\* (transcripts, usage metadata, go_away, ...).
ServerEvents ==
    { [calls |-> cs, parts |-> <<>>] : cs \in CallSeqs }
    \cup { [calls |-> <<>>, parts |-> ps] : ps \in PartSeqs }

\* what an event counts for in the size of the input
EventSize(ev) == 1 + Len(ev.calls) + Len(ev.parts)

\* ------------------------------------------------------------ pure helpers
\* json.loads(text) on the texts of ClientTexts
JsonLoads(text) ==
    CASE text = EndTurnText ->
            [ok |-> TRUE, kind |-> "object", fields |-> [type |-> "end_turn"]]
      [] text = "{\"type\": \"ping\"}" ->
            [ok |-> TRUE, kind |-> "object", fields |-> [type |-> "ping"]]
      [] text = "{}" ->
            [ok |-> TRUE, kind |-> "object", fields |-> [none |-> "none"]]
      [] text = "[1]" -> [ok |-> TRUE, kind |-> "array"]
      [] text = "null" -> [ok |-> TRUE, kind |-> "null"]
      [] OTHER -> [ok |-> FALSE]

\* payload.get exists only on a dict
HasGet(payload) == payload.kind = "object"

\* payload.get("type") == "end_turn"
IsEndTurn(payload) ==
    /\ "type" \in DOMAIN payload.fields
    /\ payload.fields.type = "end_turn"

\* ------------------------------------------------------------------- tools
\* tools.py: what func(**args) does in the worker thread.  A keyword set the
\* signature does not accept raises TypeError; scout_github_issues catches
\* every error of the GitHub access and returns one of its three strings.
AnalyzeIssueCode(args) ==
    IF DOMAIN args = {"repo_name", "issue_number"}
    THEN { [ok |-> TRUE,
            value |-> <<"Fetched issue details for ", args.repo_name, " #",
                        args.issue_number, ". The bug appears to be in the routing module.">>] }
    ELSE { [ok |-> FALSE,
            value |-> <<"analyze_issue_code() missing 1 required positional argument: ",
                        "issue_number">>] }

ScoutGithubIssues(args) ==
    IF DOMAIN args = {"repo_name"}
    THEN { [ok |-> TRUE, value |-> <<"No open issues found in ", args.repo_name>>],
           [ok |-> TRUE, value |-> <<"Found issues in ", args.repo_name>>],
           [ok |-> TRUE, value |-> <<"Error fetching issues for ", args.repo_name>>] }
    ELSE { [ok |-> FALSE,
            value |-> <<"scout_github_issues() got an unexpected keyword argument ",
                        "issue_number">>] }

\* await asyncio.to_thread(func, **args): the outcomes of the registered tool
ToolOutcomes(name, args) ==
    IF name = "analyze_issue_code" THEN AnalyzeIssueCode(args)
    ELSE ScoutGithubIssues(args)

\* ------------------------------------------------- what the code sends out
\* the audio send tagged as final
AudioSendFinal(data) == [op |-> "send", input |-> data, end_of_turn |-> TRUE]

\* session.send(input={"data": data, ...}, end_of_turn=False)
AudioSend(data) == [op |-> "send", input |-> data, end_of_turn |-> FALSE]

\* session.send(end_of_turn=True)
EndOfTurnSend == [op |-> "send", end_of_turn |-> TRUE]

\* session.send_tool_response(function_responses=function_responses)
ToolResponseSend(responses) ==
    [op |-> "send_tool_response", function_responses |-> responses]

\* the tool_execution frame without the call's arguments
UiEventNoArguments(call) ==
    [frame |-> "text", type |-> "tool_execution", function |-> call.name,
     arguments |-> <<>>]

\* websocket.send_text(json.dumps(ui_event))
UiEvent(call) ==
    [frame |-> "text", type |-> "tool_execution",
     function |-> call.name, arguments |-> call.args]

\* websocket.send_bytes(audio_bytes)
BytesFrame(data) == [frame |-> "bytes", data |-> data]

\* the result built with the default id of `getattr(call, "id", "<none>")`
ResultResponseNoId(call, result) ==
    [name |-> call.name, id |-> "<none>", response |-> [result |-> result]]

\* types.FunctionResponse(name=name, id=call_id, response={"result": result})
ResultResponse(call, result) ==
    [name |-> call.name, id |-> call.id, response |-> [result |-> result]]

\* the error response with a fixed text in place of str(e)
ErrorResponseGeneric(call, e) ==
    [name |-> call.name, id |-> call.id, response |-> [error |-> <<"tool failed">>]]

\* types.FunctionResponse(name=name, id=call_id, response={"error": str(e)})
ErrorResponse(call, e) ==
    [name |-> call.name, id |-> call.id, response |-> [error |-> e]]

\* the unknown-tool response without the requested name
UnknownToolResponseNoName(call) ==
    [name |-> call.name, id |-> call.id,
     response |-> [error |-> <<"Unknown tool">>]]

\* types.FunctionResponse(..., response={"error": f"Unknown tool: {name}"})
UnknownToolResponse(call) ==
    [name |-> call.name, id |-> call.id,
     response |-> [error |-> <<"Unknown tool: ", call.name>>]]

\* `name in AVAILABLE_TOOLS`
IsRegistered(name) == name \in AVAILABLE_TOOLS

\* `if data:` instead of `if data is not None:`
HasBytesTruthy(m) == "bytes" \in DOMAIN m /\ m.bytes # EmptyBytes

\* `data is not None`
HasBytes(m) == "bytes" \in DOMAIN m

\* `text is None`
TextIsNone(m) == "text" \notin DOMAIN m

\* `part.inline_data` alone: empty audio counts as audio
HasAudioAny(part) == "inline_data" \in DOMAIN part

\* `part.inline_data and part.inline_data.data`
HasAudio(part) ==
    /\ "inline_data" \in DOMAIN part
    /\ part.inline_data # EmptyBytes

\* ------------------------------------------------------------------- state
VARIABLES
    hpc,                     \* websocket_gemini: "connect", "gather",
                             \* "closing" (in the exit of the `async with`),
                             \* "done"
    handler_result,          \* how websocket_gemini ended
    handler_cancelled,       \* a cancellation of the handler task is pending
    session_opens,           \* entries of `async with client.aio.live.connect`
    session_closes,          \* exits of it that returned (session closed)
    close_cancelled,         \* the pending exit was cancelled with the handler
    shutdown_reason,
    session_shutdown_reason,
    task_state,              \* receive_task / send_task
    must_cancel,             \* task.cancel() was called and not yet delivered
    rpc,                     \* receive_from_client: the await it is parked on
    turn_open,
    message,                 \* last message websocket.receive() returned
    rxLog,                   \* audio and end_turn frames received, in order
    rxCount,                 \* messages websocket.receive() returned
    spc,                     \* send_to_client: the await it is parked on
    response,                \* the upstream event being handled
    ci,                      \* index of the call being handled
    pi,                      \* index of the part being forwarded
    function_responses,
    evLog,                   \* events session.receive() yielded, in order
    evSize,                  \* their size
    upstream,                \* calls made on the upstream session, in order
    toClient,                \* frames sent on the client socket, in order
    toolRuns                 \* calls dispatched to the worker thread, in order

hvars == <<hpc, handler_result, handler_cancelled, session_opens,
           session_closes, close_cancelled>>
svars == <<shutdown_reason, session_shutdown_reason, must_cancel>>
rvars == <<rpc, turn_open, message, rxLog, rxCount>>
tvars == <<spc, response, ci, pi, function_responses, evLog, evSize, toolRuns>>
vars == <<hvars, svars, task_state, rvars, tvars, upstream, toClient>>

NoMessage == [type |-> "none"]
NoEvent == [calls |-> <<>>, parts |-> <<>>]

\* the state after `await websocket.accept()`
Init ==
    /\ hpc = "connect"
    /\ handler_result = "running"
    /\ handler_cancelled = FALSE
    /\ session_opens = 0
    /\ session_closes = 0
    /\ close_cancelled = FALSE
    /\ shutdown_reason = "unknown"
    /\ session_shutdown_reason = "not established"
    /\ task_state = [t \in Tasks |-> "none"]
    /\ must_cancel = [t \in Tasks |-> FALSE]
    /\ rpc = "receive"
    /\ turn_open = FALSE
    /\ message = NoMessage
    /\ rxLog = <<>>
    /\ rxCount = 0
    /\ spc = "receive"
    /\ response = NoEvent
    /\ ci = 0
    /\ pi = 0
    /\ function_responses = <<>>
    /\ evLog = <<>>
    /\ evSize = 0
    /\ upstream = <<>>
    /\ toClient = <<>>
    /\ toolRuns = <<>>

\* task.done()
TaskDone(t) == task_state[t] \in {"done", "failed", "cancelled"}

\* `func(**args)` called in the coroutine: the tool runs on the event loop
ToolOnEventLoopDirect == TRUE

\* `await asyncio.to_thread(func, **args)`: the tool runs in a worker thread
\* and the event loop is free for the other tasks meanwhile
ToolOnEventLoop == FALSE

\* the task runs, no cancellation is waiting for it and the event loop is
\* not held by a tool of the other task
Runnable(t) ==
    /\ task_state[t] = "running"
    /\ ~must_cancel[t]
    /\ ~(ToolOnEventLoop /\ spc = "to_thread" /\ t # "send_to_client")

\* ---------------------------------------------------------------- shutdown
\* initiate_shutdown that records the reason and cancels no sibling task
InitiateShutdownNoCancel(reason, self) ==
    IF shutdown_reason # "unknown"
    THEN UNCHANGED svars
    ELSE /\ shutdown_reason' = reason
         /\ session_shutdown_reason' = reason
         /\ UNCHANGED must_cancel

\* initiate_shutdown(reason, error=...) called by task `self`.  The lock is
\* never contended (nothing awaits while holding it), so the call is atomic.
InitiateShutdown(reason, self) ==
    IF shutdown_reason # "unknown"
    THEN UNCHANGED svars
    ELSE /\ shutdown_reason' = reason
         /\ session_shutdown_reason' = reason
         /\ must_cancel' =
                [t \in Tasks |->
                    IF task_state[t] # "none" /\ t # self /\ ~TaskDone(t)
                    THEN TRUE ELSE must_cancel[t]]

\* ----------------------------------------------------------------- handler
\* client.aio.live.connect(...) opens the session; both tasks are created
ConnectOk ==
    /\ hpc = "connect"
    /\ ~handler_cancelled
    /\ hpc' = "gather"
    /\ session_opens' = session_opens + 1
    /\ task_state' = [t \in Tasks |-> "running"]
    /\ UNCHANGED <<handler_result, handler_cancelled, session_closes,
                   close_cancelled, svars, rvars, tvars, upstream, toClient>>

\* the connect raises: `except Exception`, then `finally`
ConnectFail ==
    /\ hpc = "connect"
    /\ ~handler_cancelled
    /\ hpc' = "done"
    /\ handler_result' = "session error"
    /\ UNCHANGED <<handler_cancelled, session_opens, session_closes,
                   close_cancelled, svars, task_state, rvars, tvars, upstream,
                   toClient>>

\* the connect raises the CancelledError of the handler's cancellation:
\* `except Exception` does not catch it, `finally`, and the cancellation
\* leaves the handler with no session opened and no task created
ConnectCancelled ==
    /\ hpc = "connect"
    /\ handler_cancelled
    /\ hpc' = "done"
    /\ handler_result' = "cancelled"
    /\ UNCHANGED <<handler_cancelled, session_opens, session_closes,
                   close_cancelled, svars, task_state, rvars, tvars, upstream,
                   toClient>>

\* handler_task.cancel() while the handler is parked at an await.  At the
\* connect (line 63) the pending connect is cancelled; at asyncio.gather
\* (line 297) gather cancels the children that are not done; at the exit of
\* the `async with` the pending close is cancelled, also when an earlier
\* cancellation has brought the handler there.
HandlerCancel ==
    /\ \/ hpc \in {"connect", "gather"} /\ ~handler_cancelled
       \/ hpc = "closing" /\ ~close_cancelled
    /\ handler_cancelled' = TRUE
    /\ must_cancel' =
          IF hpc = "gather"
          THEN [t \in Tasks |-> IF TaskDone(t) THEN must_cancel[t] ELSE TRUE]
          ELSE must_cancel
    /\ close_cancelled' = (hpc = "closing")
    /\ UNCHANGED <<hpc, handler_result, session_opens, session_closes,
                   shutdown_reason, session_shutdown_reason, task_state,
                   rvars, tvars, upstream, toClient>>

\* asyncio.gather(receive_task, send_task, return_exceptions=True) is done
GatherDone == \A t \in Tasks : TaskDone(t)

\* gather returned: lines 299-302, then the `async with` block is left and
\* the handler awaits the close of the session
HandlerReturn ==
    /\ hpc = "gather"
    /\ GatherDone
    /\ ~handler_cancelled
    /\ IF shutdown_reason = "unknown"
       THEN /\ shutdown_reason' = "internal task completion"
            /\ session_shutdown_reason' = "internal task completion"
       ELSE UNCHANGED <<shutdown_reason, session_shutdown_reason>>
    /\ hpc' = "closing"
    /\ UNCHANGED <<handler_result, handler_cancelled, session_opens,
                   session_closes, close_cancelled, must_cancel, task_state,
                   rvars, tvars, upstream, toClient>>

\* gather raised CancelledError: the `async with` block is left with it and
\* the handler awaits the close of the session
HandlerCancelled ==
    /\ hpc = "gather"
    /\ GatherDone
    /\ handler_cancelled
    /\ hpc' = "closing"
    /\ UNCHANGED <<handler_result, handler_cancelled, session_opens,
                   session_closes, close_cancelled, svars, task_state,
                   rvars, tvars, upstream, toClient>>

\* the close of the session returns or raises.  When it returns: `finally`,
\* and the handler ends by returning or with the CancelledError that gather
\* raised.  When it raises, its exception replaces that CancelledError and is
\* caught by `except Exception` (line 307): the handler reports a session
\* error and returns.
SessionClosed ==
    /\ hpc = "closing"
    /\ ~close_cancelled
    /\ \E ok \in BOOLEAN :
          IF ok
          THEN /\ session_closes' = session_closes + 1
               /\ handler_result' =
                     IF handler_cancelled THEN "cancelled" ELSE "returned"
          ELSE /\ session_closes' = session_closes
               /\ handler_result' = "session error"
    /\ hpc' = "done"
    /\ UNCHANGED <<handler_cancelled, session_opens, close_cancelled, svars,
                   task_state, rvars, tvars, upstream, toClient>>

\* the pending close raises the CancelledError of the handler's cancellation:
\* the close has not returned, `except Exception` does not catch it,
\* `finally`, and the cancellation leaves the handler
SessionCloseCancelled ==
    /\ hpc = "closing"
    /\ close_cancelled
    /\ hpc' = "done"
    /\ handler_result' = "cancelled"
    /\ UNCHANGED <<handler_cancelled, session_opens, session_closes,
                   close_cancelled, svars, task_state, rvars, tvars, upstream,
                   toClient>>

\* ----------------------------------------------------- receive_from_client
\* the task ends: it returned (after initiate_shutdown) or raised
RecvEnds(how) == task_state' = [task_state EXCEPT !["receive_from_client"] = how]

\* `except Exception as e: await initiate_shutdown("client receive fatal error", error=e)`
RecvFatal ==
    /\ InitiateShutdown("client receive fatal error", "receive_from_client")
    /\ RecvEnds("done")

\* `await initiate_shutdown("client websocket close")`, then the loop is left
RecvClose ==
    /\ InitiateShutdown("client websocket close", "receive_from_client")
    /\ RecvEnds("done")

\* finalize_turn without the `if not turn_open: return` guard
FinalizeTurnUnguarded(where, otherwise) ==
    /\ upstream' = Append(upstream, EndOfTurnSend)
    /\ rpc' = where
    /\ UNCHANGED <<turn_open, svars, task_state>>

\* finalize_turn(source) up to its await: with an utterance open it calls
\* session.send(end_of_turn=True) and parks at `where`; otherwise it returns
\* at once and `otherwise` goes on.
FinalizeTurn(where, otherwise) ==
    IF turn_open
    THEN /\ upstream' = Append(upstream, EndOfTurnSend)
         /\ rpc' = where
         /\ UNCHANGED <<turn_open, svars, task_state>>
    ELSE /\ otherwise
         /\ UNCHANGED <<upstream, turn_open>>

\* the loop goes back to `await websocket.receive()`
RecvContinue ==
    /\ rpc' = "receive"
    /\ UNCHANGED <<svars, task_state>>

\* the frame is entered in the history of audio / end_turn frames
Logged(m) ==
    IF "bytes" \in DOMAIN m
    THEN Append(rxLog, [kind |-> "audio", data |-> m.bytes])
    ELSE IF "text" \in DOMAIN m /\ m.text = EndTurnText
    THEN Append(rxLog, [kind |-> "end_turn"])
    ELSE rxLog

\* lines 105-145: websocket.receive() returns message m
HandleMessage(m) ==
    IF m.type = "websocket.disconnect"
    THEN FinalizeTurn("finalize_close", RecvClose /\ UNCHANGED rpc)
    ELSE IF m.type # "websocket.receive"
    THEN RecvContinue /\ UNCHANGED <<upstream, turn_open>>
    ELSE IF HasBytes(m)
    THEN /\ turn_open' = TRUE
         /\ upstream' = Append(upstream, AudioSend(m.bytes))
         /\ rpc' = "send_audio"
         /\ UNCHANGED <<svars, task_state>>
    ELSE IF TextIsNone(m)
    THEN RecvContinue /\ UNCHANGED <<upstream, turn_open>>
    ELSE IF ~JsonLoads(m.text).ok
    THEN RecvContinue /\ UNCHANGED <<upstream, turn_open>>
    ELSE IF ~HasGet(JsonLoads(m.text))
    THEN \* payload.get raises AttributeError
         RecvFatal /\ UNCHANGED <<rpc, upstream, turn_open>>
    ELSE IF IsEndTurn(JsonLoads(m.text))
    THEN FinalizeTurn("finalize_control", RecvContinue)
    ELSE RecvContinue /\ UNCHANGED <<upstream, turn_open>>

RecvMessage ==
    /\ Runnable("receive_from_client")
    /\ rpc = "receive"
    /\ rxCount + evSize < MaxInputs
    /\ \E m \in ClientMessages :
          /\ message' = m
          /\ rxLog' = Logged(m)
          /\ HandleMessage(m)
    /\ rxCount' = rxCount + 1
    /\ UNCHANGED <<hvars, tvars, toClient>>

\* websocket.receive() raises: WebSocketDisconnect (line 146) or another
\* exception (line 151)
RecvError ==
    /\ Runnable("receive_from_client")
    /\ rpc = "receive"
    /\ \E e \in ReceiveErrors :
          IF e = "WebSocketDisconnect"
          THEN FinalizeTurn("finalize_disconnect", RecvClose /\ UNCHANGED rpc)
          ELSE RecvFatal /\ UNCHANGED <<rpc, upstream, turn_open>>
    /\ UNCHANGED <<hvars, message, rxLog, rxCount, tvars, toClient>>

\* the loop acknowledges each forwarded chunk to the client
RecvAudioSentAcked ==
    /\ Runnable("receive_from_client")
    /\ rpc = "send_audio"
    /\ \E ok \in BOOLEAN :
          IF ok
          THEN /\ RecvContinue
               /\ toClient' = Append(toClient, [frame |-> "text", type |-> "ack"])
          ELSE RecvFatal /\ UNCHANGED <<rpc, toClient>>
    /\ UNCHANGED <<hvars, turn_open, message, rxLog, rxCount, tvars, upstream>>

\* `await session.send(input=..., end_of_turn=False)` returns or raises
RecvAudioSent ==
    /\ Runnable("receive_from_client")
    /\ rpc = "send_audio"
    /\ \E ok \in BOOLEAN :
          IF ok THEN RecvContinue ELSE RecvFatal /\ UNCHANGED rpc
    /\ UNCHANGED <<hvars, turn_open, message, rxLog, rxCount, tvars,
                   upstream, toClient>>

\* `await session.send(end_of_turn=True)` in finalize_turn returns or raises.
\* Called from line 143 or 109 an error reaches `except Exception`; called
\* from the WebSocketDisconnect handler (line 147) it leaves the task.
RecvTurnFinalized ==
    /\ Runnable("receive_from_client")
    /\ rpc \in {"finalize_control", "finalize_close", "finalize_disconnect"}
    /\ \E ok \in BOOLEAN :
          IF ok
          THEN /\ turn_open' = FALSE
               /\ IF rpc = "finalize_control"
                  THEN RecvContinue
                  ELSE RecvClose /\ UNCHANGED rpc
          ELSE /\ UNCHANGED turn_open
               /\ IF rpc = "finalize_disconnect"
                  THEN RecvEnds("failed") /\ UNCHANGED <<rpc, svars>>
                  ELSE RecvFatal /\ UNCHANGED rpc
    /\ UNCHANGED <<hvars, message, rxLog, rxCount, tvars, upstream, toClient>>

\* the pending await raises CancelledError: `except asyncio.CancelledError: raise`
RecvCancelled ==
    /\ task_state["receive_from_client"] = "running"
    /\ must_cancel["receive_from_client"]
    /\ task_state' = [task_state EXCEPT !["receive_from_client"] = "cancelled"]
    /\ must_cancel' = [must_cancel EXCEPT !["receive_from_client"] = FALSE]
    /\ UNCHANGED <<hvars, shutdown_reason, session_shutdown_reason, rvars,
                   tvars, upstream, toClient>>

\* ---------------------------------------------------------- send_to_client
\* the values the loop leaves in its variables and collaborators when it
\* parks at the await `pc`
SendStep(pc, c, p, resps, ups, tcl) ==
    /\ spc' = pc
    /\ ci' = c
    /\ pi' = p
    /\ function_responses' = resps
    /\ upstream' = ups
    /\ toClient' = tcl

\* index of the first part at or after j that carries audio, 0 if none
NextAudio(parts, j) ==
    IF \E k \in j..Len(parts) : HasAudio(parts[k])
    THEN CHOOSE k \in j..Len(parts) :
            /\ HasAudio(parts[k])
            /\ \A i \in j..(k - 1) : ~HasAudio(parts[i])
    ELSE 0

\* lines 259-287 from part j on: the next audio part is handed to
\* websocket.send_bytes; without one the loop asks for the next event
ForwardParts(ev, j, resps) ==
    LET k == NextAudio(ev.parts, j) IN
    IF k # 0
    THEN SendStep("send_bytes", 0, k, resps, upstream,
                  Append(toClient, BytesFrame(ev.parts[k].inline_data)))
    ELSE SendStep("receive", 0, 0, resps, upstream, toClient)

\* lines 185-200: call k is announced to the client
BeginCall(ev, k, resps) ==
    SendStep("send_text", k, 0, resps, upstream,
             Append(toClient, UiEvent(ev.calls[k])))

\* the response of call k is collected: the next call, or after the last
\* one lines 228-230 hand the batch to session.send_tool_response
AfterResponse(ev, k, resps) ==
    IF k < Len(ev.calls)
    THEN BeginCall(ev, k + 1, resps)
    ELSE IF resps # <<>>
    THEN SendStep("send_tool_response", k, 0, resps,
                  Append(upstream, ToolResponseSend(resps)), toClient)
    ELSE ForwardParts(ev, 1, resps)

\* lines 180-184 and 259: an event with function calls starts with the first
\* call, any other event goes to its parts
HandleEvent(ev) ==
    IF ev.calls # <<>>
    THEN BeginCall(ev, 1, <<>>)
    ELSE ForwardParts(ev, 1, <<>>)

SendEnds(how) == task_state' = [task_state EXCEPT !["send_to_client"] = how]

\* `except Exception as e: await initiate_shutdown("Gemini API fatal error", error=e)`
SendFatal ==
    /\ InitiateShutdown("Gemini API fatal error", "send_to_client")
    /\ SendEnds("done")
    /\ UNCHANGED <<spc, ci, pi, function_responses, upstream, toClient>>

\* session.receive() yields the next event
SendEvent ==
    /\ Runnable("send_to_client")
    /\ spc = "receive"
    /\ \E ev \in ServerEvents :
          /\ rxCount + evSize + EventSize(ev) <= MaxInputs
          /\ response' = ev
          /\ evLog' = Append(evLog, ev)
          /\ evSize' = evSize + EventSize(ev)
          /\ HandleEvent(ev)
    /\ UNCHANGED <<hvars, svars, task_state, rvars, toolRuns>>

\* session.receive() is exhausted: line 288
SendStreamEnd ==
    /\ Runnable("send_to_client")
    /\ spc = "receive"
    /\ InitiateShutdown("Gemini stream close", "send_to_client")
    /\ SendEnds("done")
    /\ UNCHANGED <<hvars, rvars, tvars, upstream, toClient>>

\* session.receive() raises
SendStreamError ==
    /\ Runnable("send_to_client")
    /\ spc = "receive"
    /\ SendFatal
    /\ UNCHANGED <<hvars, rvars, response, evLog, evSize, toolRuns>>

\* `await websocket.send_text(...)` returns or raises; a registered tool is
\* dispatched to the worker thread, an unknown one is answered at once
SendTextSent ==
    /\ Runnable("send_to_client")
    /\ spc = "send_text"
    /\ LET call == response.calls[ci] IN
       \E ok \in BOOLEAN :
          IF ~ok
          THEN SendFatal /\ UNCHANGED toolRuns
          ELSE IF IsRegistered(call.name)
          THEN /\ spc' = "to_thread"
               /\ toolRuns' = Append(toolRuns, call)
               /\ UNCHANGED <<ci, pi, function_responses, upstream, toClient,
                              svars, task_state>>
          ELSE /\ AfterResponse(response, ci,
                        Append(function_responses, UnknownToolResponse(call)))
               /\ UNCHANGED <<toolRuns, svars, task_state>>
    /\ UNCHANGED <<hvars, rvars, response, evLog, evSize>>

\* `await asyncio.to_thread(func, **args)` returns the result or raises
ToolReturned ==
    /\ Runnable("send_to_client")
    /\ spc = "to_thread"
    /\ LET call == response.calls[ci] IN
       \E o \in ToolOutcomes(call.name, call.args) :
          AfterResponse(response, ci,
              Append(function_responses,
                     IF o.ok THEN ResultResponse(call, o.value)
                     ELSE ErrorResponse(call, o.value)))
    /\ UNCHANGED <<hvars, svars, task_state, rvars, response, evLog, evSize, toolRuns>>

\* `await session.send_tool_response(...)` returns or raises
ToolResponseSent ==
    /\ Runnable("send_to_client")
    /\ spc = "send_tool_response"
    /\ \E ok \in BOOLEAN :
          IF ok
          THEN /\ ForwardParts(response, 1, function_responses)
               /\ UNCHANGED <<svars, task_state>>
          ELSE SendFatal
    /\ UNCHANGED <<hvars, rvars, response, evLog, evSize, toolRuns>>

\* `await websocket.send_bytes(audio_bytes)` returns or raises
SendBytesSent ==
    /\ Runnable("send_to_client")
    /\ spc = "send_bytes"
    /\ \E ok \in BOOLEAN :
          IF ok
          THEN /\ ForwardParts(response, pi + 1, function_responses)
               /\ UNCHANGED <<svars, task_state>>
          ELSE SendFatal
    /\ UNCHANGED <<hvars, rvars, response, evLog, evSize, toolRuns>>

\* the pending await raises CancelledError: `except asyncio.CancelledError: raise`
SendCancelled ==
    /\ task_state["send_to_client"] = "running"
    /\ must_cancel["send_to_client"]
    /\ task_state' = [task_state EXCEPT !["send_to_client"] = "cancelled"]
    /\ must_cancel' = [must_cancel EXCEPT !["send_to_client"] = FALSE]
    /\ UNCHANGED <<hvars, shutdown_reason, session_shutdown_reason, rvars,
                   tvars, upstream, toClient>>

\* ----------------------------------------------------------- specification
Next ==
    \/ ConnectOk
    \/ ConnectFail
    \/ ConnectCancelled
    \/ HandlerCancel
    \/ HandlerReturn
    \/ HandlerCancelled
    \/ SessionClosed
    \/ SessionCloseCancelled
    \/ RecvMessage
    \/ RecvError
    \/ RecvAudioSent
    \/ RecvTurnFinalized
    \/ RecvCancelled
    \/ SendEvent
    \/ SendStreamEnd
    \/ SendStreamError
    \/ SendTextSent
    \/ ToolReturned
    \/ ToolResponseSent
    \/ SendBytesSent
    \/ SendCancelled

Spec == Init /\ [][Next]_vars

\* ------------------------------------------------------ reading the logs
IsAudioSend(u) == u.op = "send" /\ "input" \in DOMAIN u
IsEndOfTurnSend(u) == u.op = "send" /\ u.end_of_turn
IsToolResponseSend(u) == u.op = "send_tool_response"

\* the sends of receive_from_client, in order
UpClient == SelectSeq(upstream, LAMBDA u : u.op = "send")
UpAudio == SelectSeq(upstream, IsAudioSend)
RxAudio == SelectSeq(rxLog, LAMBDA f : f.kind = "audio")

\* number of elements of seq[1..n] that satisfy Test
CountIn(seq, n, Test(_)) == Cardinality({ i \in 1..n : Test(seq[i]) })

\* position in seq of the k-th element that satisfies Test
PosOf(seq, k, Test(_)) ==
    CHOOSE p \in 1..Len(seq) : Test(seq[p]) /\ CountIn(seq, p, Test) = k

\* an utterance is open by the record of the sends: an audio send follows
\* the last end-of-turn signal
UtteranceOpenInLog ==
    /\ UpClient # <<>>
    /\ IsAudioSend(UpClient[Len(UpClient)])

EndTurnMessage == [type |-> "websocket.receive", text |-> EndTurnText]

\* receive_from_client took the message m from websocket.receive() in this step
Received(m) == rxCount' = rxCount + 1 /\ message' = m

RecvKeepsReading ==
    /\ rpc' = "receive"
    /\ task_state'["receive_from_client"] = "running"
    /\ ~must_cancel'["receive_from_client"]
    /\ shutdown_reason' = shutdown_reason

\* ------------------------------------------------------------------ claims
\* C1: every binary frame received is forwarded upstream as an audio send
\* with end_of_turn=False; the audio sends are in the order of the frames;
\* and the end-of-turn signals that precede an audio send are no more than
\* the end_turn frames that preceded its frame (a signal caused by a later
\* end_turn frame comes after it).
C1_AudioForwardedInOrder ==
    /\ Len(UpAudio) = Len(RxAudio)
    /\ \A k \in 1..Len(UpAudio) :
          /\ UpAudio[k].input = RxAudio[k].data
          /\ UpAudio[k].end_of_turn = FALSE
          /\ CountIn(upstream, PosOf(upstream, k, IsAudioSend), IsEndOfTurnSend)
               <= CountIn(rxLog, PosOf(rxLog, k, LAMBDA f : f.kind = "audio"),
                          LAMBDA f : f.kind = "end_turn")

\* two different chunks forwarded around an end-of-turn signal
C1_Witness ==
    /\ Len(UpClient) = 3
    /\ IsAudioSend(UpClient[1]) /\ UpClient[1].input = EmptyBytes
    /\ IsEndOfTurnSend(UpClient[2])
    /\ IsAudioSend(UpClient[3]) /\ UpClient[3].input = <<2>>
    /\ rpc = "receive"

\* C2: an end_turn control frame received while no utterance is open (no
\* audio send since the start or since the last end-of-turn signal) makes no
\* call on the upstream session, leaves turn_open false, and the loop goes
\* back to websocket.receive().
C2_EndTurnWithoutUtterance ==
    [][ (Received(EndTurnMessage) /\ ~UtteranceOpenInLog)
          => (upstream' = upstream /\ ~turn_open /\ ~turn_open' /\ RecvKeepsReading)
      ]_vars

\* an end_turn frame was taken after the utterance had been closed
C2_Witness ==
    /\ message = EndTurnMessage
    /\ rxLog = <<[kind |-> "audio", data |-> <<1>>], [kind |-> "end_turn"],
                 [kind |-> "end_turn"]>>
    /\ UpClient = <<AudioSend(<<1>>), EndOfTurnSend>>
    /\ rpc = "receive"
    /\ task_state["receive_from_client"] = "running"

\* the frames received are n >= 1 audio frames followed by one end_turn
AudioThenEndTurn ==
    /\ Len(rxLog) >= 2
    /\ rxLog[Len(rxLog)].kind = "end_turn"
    /\ \A i \in 1..(Len(rxLog) - 1) : rxLog[i].kind = "audio"

\* C3: after n >= 1 audio frames followed by one end_turn frame the upstream
\* session has received exactly the n non-final audio sends and then exactly
\* one end-of-turn signal, and once that send has returned the utterance is
\* closed.
C3_UtteranceThenEndOfTurn ==
    AudioThenEndTurn =>
        /\ Len(UpClient) = Len(rxLog)
        /\ \A i \in 1..(Len(rxLog) - 1) :
              UpClient[i] = [op |-> "send", input |-> rxLog[i].data,
                             end_of_turn |-> FALSE]
        /\ UpClient[Len(rxLog)] = [op |-> "send", end_of_turn |-> TRUE]
        /\ (rpc = "receive" => ~turn_open)

\* three audio frames and the end_turn frame, handled to the end
C3_Witness ==
    /\ AudioThenEndTurn
    /\ Len(rxLog) = 4
    /\ rpc = "receive"
    /\ task_state["receive_from_client"] = "running"
    /\ ~turn_open

\* the reasons the two loops give to initiate_shutdown
LoopReasons ==
    { "client websocket close", "client receive fatal error",
      "Gemini stream close", "Gemini API fatal error" }

\* C4: shutdown is idempotent.  The step in which a loop records the first
\* reason also records it as the session's reason and leaves no other task
\* running without a pending cancellation; once a reason is recorded no step
\* changes it, and no step but a cancellation of the handler itself requests
\* a cancellation any more.
C4_ShutdownIdempotent ==
    [][ /\ (shutdown_reason = "unknown" /\ shutdown_reason' \in LoopReasons)
            => /\ session_shutdown_reason' = shutdown_reason'
               /\ \A t \in Tasks : task_state'[t] = "running" => must_cancel'[t]
        /\ shutdown_reason # "unknown"
            => /\ shutdown_reason' = shutdown_reason
               /\ session_shutdown_reason' = session_shutdown_reason
               /\ handler_cancelled' = handler_cancelled
                    => \A t \in Tasks : must_cancel'[t] => must_cancel[t]
      ]_vars

\* the upstream loop ended first: its reason is recorded and the client loop,
\* still running, has a cancellation pending
C4_Witness ==
    /\ shutdown_reason = "Gemini stream close"
    /\ session_shutdown_reason = "Gemini stream close"
    /\ task_state["send_to_client"] = "done"
    /\ task_state["receive_from_client"] = "running"
    /\ must_cancel["receive_from_client"]
    /\ ~handler_cancelled

\* C5: when either loop has ended, normally or by an error, the other loop
\* has ended too or has a cancellation pending.
C5_OtherLoopCancelled ==
    \A t \in Tasks :
        TaskDone(t) => \A u \in Tasks : TaskDone(u) \/ must_cancel[u]

\* C6: at most one upstream session is opened per connection; it is closed
\* at most once and only after both loops have settled; and when the handler
\* has finished, a session that was opened has been closed exactly once,
\* whatever the recorded shutdown reason.
C6_SessionClosedOnce ==
    /\ session_opens <= 1
    /\ session_closes <= session_opens
    /\ session_closes = 1 => \A t \in Tasks : TaskDone(t)
    /\ hpc \in {"closing", "done"} /\ session_opens = 1
         => \A t \in Tasks : TaskDone(t)
    /\ hpc = "done" => session_closes = session_opens

\* the tool-call events received that carry function calls, and the
\* tool-response batches sent, both in order
ToolEvents == SelectSeq(evLog, LAMBDA e : e.calls # <<>>)
Batches == SelectSeq(upstream, IsToolResponseSend)

\* the function call send_to_client is handling
CurrentCall == response.calls[ci]

\* send_to_client is between the first call of an event and its batch
HandlingCalls == spc \in {"send_text", "to_thread"}

\* responses rs answer the calls cs one for one, with their ids and names
Answers(rs, cs) ==
    /\ Len(rs) = Len(cs)
    /\ \A j \in 1..Len(cs) : rs[j].id = cs[j].id /\ rs[j].name = cs[j].name

\* C7: the tool-response batches sent upstream are, in order, one per
\* tool-call event whose calls have all been answered (none for the event
\* still being handled, never two for one event), and each batch holds one
\* response per call of its event, with the call's correlation id and name.
C7_OneBatchPerToolCall ==
    /\ Len(Batches) = Len(ToolEvents) - (IF HandlingCalls THEN 1 ELSE 0)
    /\ \A i \in 1..Len(Batches) :
          Answers(Batches[i].function_responses, ToolEvents[i].calls)

\* a batch answering two calls, sent and returned
C7_Witness ==
    /\ Len(Batches) = 1
    /\ Len(Batches[1].function_responses) = 2
    /\ Batches[1].function_responses[1].id = "fc-1"
    /\ Batches[1].function_responses[2].id = "fc-2"
    /\ "result" \in DOMAIN Batches[1].function_responses[2].response
    /\ spc = "receive"
    /\ task_state["send_to_client"] = "running"

UnknownToolError(name) == [error |-> <<"Unknown tool: ", name>>]

\* C8: a call of a tool that is not in AVAILABLE_TOOLS is answered, without
\* running anything and without ending the loop or triggering shutdown, by
\* an error response that contains the requested name; every batch sent
\* carries that response for such a call; and once the batch send returns
\* the loop goes on with the event and then the next one.
C8_UnknownToolAnswered ==
    /\ [](\A i \in 1..Len(Batches) :
            \A j \in 1..Len(ToolEvents[i].calls) :
               ToolEvents[i].calls[j].name \notin AVAILABLE_TOOLS
                 => /\ j <= Len(Batches[i].function_responses)
                    /\ Batches[i].function_responses[j].response
                         = UnknownToolError(ToolEvents[i].calls[j].name))
    /\ [][ /\ ( /\ spc = "send_text"
                /\ CurrentCall.name \notin AVAILABLE_TOOLS
                /\ function_responses' # function_responses )
              => /\ function_responses' =
                        Append(function_responses,
                               [name |-> CurrentCall.name, id |-> CurrentCall.id,
                                response |-> UnknownToolError(CurrentCall.name)])
                 /\ task_state'["send_to_client"] = "running"
                 /\ svars' = svars
                 /\ toolRuns' = toolRuns
           /\ ( spc = "send_tool_response" /\ spc' # spc )
              => /\ spc' \in {"receive", "send_bytes"}
                 /\ task_state'["send_to_client"] = "running"
                 /\ svars' = svars
         ]_vars

\* the batch for an unknown tool was delivered and the loop took the next
\* event
C8_Witness ==
    /\ Len(evLog) = 2
    /\ Len(evLog[1].calls) = 1
    /\ evLog[1].calls[1].name = "deploy_code"
    /\ Len(Batches) = 1
    /\ Batches[1].function_responses[1].response = UnknownToolError("deploy_code")
    /\ task_state["send_to_client"] = "running"
    /\ shutdown_reason = "unknown"

\* the registered tool raises on these arguments
ToolRaises(call) ==
    /\ call.name \in AVAILABLE_TOOLS
    /\ \A o \in ToolOutcomes(call.name, call.args) : ~o.ok

\* C9: when a registered tool raises, the step that resumes send_to_client
\* from the tool appends an error response with the exception's message and
\* the call's correlation id (and name), the task keeps running, no
\* shutdown is recorded and no cancellation requested, and the loop goes on
\* to the next call or to the batch; every batch sent carries that error
\* response for such a call.
C9_ToolExceptionAnswered ==
    /\ [](\A i \in 1..Len(Batches) :
            \A j \in 1..Len(ToolEvents[i].calls) :
               ToolRaises(ToolEvents[i].calls[j])
                 => /\ j <= Len(Batches[i].function_responses)
                    /\ Batches[i].function_responses[j].id = ToolEvents[i].calls[j].id
                    /\ \E o \in ToolOutcomes(ToolEvents[i].calls[j].name,
                                             ToolEvents[i].calls[j].args) :
                          Batches[i].function_responses[j].response
                             = [error |-> o.value])
    /\ [][ ( /\ spc = "to_thread"
             /\ ToolRaises(CurrentCall)
             /\ ~must_cancel["send_to_client"]
             /\ <<spc, function_responses, task_state["send_to_client"]>>'
                  # <<spc, function_responses, task_state["send_to_client"]>> )
           => /\ \E o \in ToolOutcomes(CurrentCall.name, CurrentCall.args) :
                    function_responses' =
                        Append(function_responses,
                               [name |-> CurrentCall.name, id |-> CurrentCall.id,
                                response |-> [error |-> o.value]])
              /\ task_state'["send_to_client"] = "running"
              /\ svars' = svars
              /\ spc' \in {"send_text", "send_tool_response"}
         ]_vars

\* a raising tool was answered with its error and the batch was delivered;
\* the loop is reading the next event and no shutdown was triggered
C9_Witness ==
    /\ Len(Batches) = 1
    /\ ToolRaises(ToolEvents[1].calls[1])
    /\ "error" \in DOMAIN Batches[1].function_responses[1].response
    /\ spc = "receive"
    /\ task_state["send_to_client"] = "running"
    /\ ~must_cancel["send_to_client"]
    /\ shutdown_reason = "unknown"

\* C10: a text frame that is not an end-of-turn control message (non-JSON
\* text, JSON that is not an object, an object with another or no type)
\* makes no call on the upstream session, leaves turn_open as it is,
\* triggers no shutdown, and the loop goes back to websocket.receive().
C10_OtherTextIgnored ==
    [][ \A t \in ClientTexts \ {EndTurnText} :
           Received([type |-> "websocket.receive", text |-> t])
             => (upstream' = upstream /\ turn_open' = turn_open /\ RecvKeepsReading)
      ]_vars

\* the loop ended by returning or by an exception, not by its cancellation
EndedUncancelled(t) == task_state[t] \in {"done", "failed"}

\* C11: an error raised inside a loop is caught in the loop and makes it
\* call initiate_shutdown: no loop ends with an exception, and a loop that
\* has ended other than by cancellation has left a shutdown reason recorded.
C11_ErrorsTriggerShutdown ==
    \A t \in Tasks :
        /\ task_state[t] # "failed"
        /\ EndedUncancelled(t) => shutdown_reason # "unknown"

DisconnectMessage == [type |-> "websocket.disconnect"]

\* receive_from_client handled a client disconnect with an utterance open
\* (it sent the end-of-turn signal from line 109 or line 147)
FinalizedOnDisconnect == rpc \in {"finalize_close", "finalize_disconnect"}

\* C12: a client disconnect with an utterance open makes the loop send one
\* end-of-turn signal and then initiate shutdown: when the loop has ended
\* after that send (not by cancellation) a shutdown reason is recorded, and
\* the reason "client websocket close" is never recorded while the sends
\* show an utterance open or before that send has returned; with no
\* utterance open nothing was sent for the disconnect.
C12_FinalizeThenShutdown ==
    /\ FinalizedOnDisconnect
         => /\ IsEndOfTurnSend(UpClient[Len(UpClient)])
            /\ Len(UpClient) >= 2
            /\ IsAudioSend(UpClient[Len(UpClient) - 1])
            /\ EndedUncancelled("receive_from_client")
                 => shutdown_reason # "unknown"
    /\ shutdown_reason = "client websocket close"
         => /\ task_state["receive_from_client"] = "done"
            /\ ~UtteranceOpenInLog
            /\ ~turn_open

\* what websocket.close() would put on the client socket
CloseFrame == [frame |-> "close"]

\* C13: on every path by which the handler has finished it has closed the
\* client connection (the close is the last thing sent on the socket): after
\* both loops have settled and the session is closed, and when the session
\* failed to open, with the failure reported and neither loop started.
C13_HandlerClosesClient ==
    hpc = "done"
      => /\ toClient # <<>>
         /\ toClient[Len(toClient)] = CloseFrame
         /\ IF session_opens = 0
            THEN /\ handler_result \in {"session error", "cancelled"}
                 /\ \A t \in Tasks : task_state[t] = "none"
            ELSE /\ \A t \in Tasks : TaskDone(t)
                 /\ session_closes = 1

\* the bytes of the parts of `parts[1..n]` that send_to_client forwards
RECURSIVE AudioOfParts(_, _)
AudioOfParts(parts, n) ==
    IF n = 0 THEN <<>>
    ELSE LET p == parts[n]
             rest == AudioOfParts(parts, n - 1)
         IN IF "inline_data" \in DOMAIN p /\ Len(p.inline_data) > 0
            THEN Append(rest, p.inline_data)
            ELSE rest

\* the parts of the last event received that the loop has gone through
PartsDone ==
    CASE spc = "receive" -> Len(response.parts)
      [] spc = "send_bytes" -> pi
      [] OTHER -> 0

\* the audio of the events evLog[1..n], the last one up to PartsDone
RECURSIVE AudioReceived(_)
AudioReceived(n) ==
    IF n = 0 THEN <<>>
    ELSE AudioReceived(n - 1) \o
         AudioOfParts(evLog[n].parts,
                      IF n = Len(evLog) THEN PartsDone
                      ELSE Len(evLog[n].parts))

\* the binary frames sent to the client, in order
ClientBytes == SelectSeq(toClient, LAMBDA f : f.frame = "bytes")

\* C14: the binary frames sent to the client are, in order and with the
\* same bytes, the non-empty inline audio of the event parts received from
\* the upstream session: one frame per such part, nothing for a text part
\* or empty audio, all of them once the loop is back at reading events.
C14_AudioToClientInOrder ==
    /\ Len(ClientBytes) = Len(AudioReceived(Len(evLog)))
    /\ \A i \in 1..Len(ClientBytes) :
           ClientBytes[i] = [frame |-> "bytes",
                             data |-> AudioReceived(Len(evLog))[i]]

\* two audio parts of one event reached the client in the order received
C14_Witness ==
    /\ spc = "receive"
    /\ Len(evLog) = 1
    /\ Len(evLog[1].parts) = 2
    /\ ClientBytes = << [frame |-> "bytes", data |-> <<2>>],
                        [frame |-> "bytes", data |-> <<1>>] >>

\* the calls of the last event received that the loop has announced
CallsAnnounced ==
    IF HandlingCalls THEN ci ELSE Len(response.calls)

\* the function calls of the events evLog[1..n] announced so far, in order
RECURSIVE Announced(_)
Announced(n) ==
    IF n = 0 THEN <<>>
    ELSE Announced(n - 1) \o
         SubSeq(evLog[n].calls, 1,
                IF n = Len(evLog) THEN CallsAnnounced
                ELSE Len(evLog[n].calls))

\* the text frames sent to the client, in order
ClientTextFrames == SelectSeq(toClient, LAMBDA f : f.frame = "text")

\* the announced calls whose tool has been started: every registered one,
\* but for the call whose announcement is still being sent
Started ==
    LET all == Announced(Len(evLog))
        n == IF spc = "send_text" /\ all # <<>> THEN Len(all) - 1
             ELSE Len(all)
    IN SelectSeq(SubSeq(all, 1, n), LAMBDA c : c.name \in AVAILABLE_TOOLS)

\* C15: every function call of a tool-call event, registered or not, is
\* announced to the client by a tool_execution text frame with its name and
\* arguments before it is executed and before the event's tool-response
\* batch is sent: the text frames are the calls reached so far, the tools
\* run are announced calls, and a batch exists only for events whose calls
\* are all announced.
C15_AnnouncedBeforeExecution ==
    LET all == Announced(Len(evLog)) IN
    /\ Len(ClientTextFrames) = Len(all)
    /\ \A i \in 1..Len(all) :
           ClientTextFrames[i] = [frame |-> "text",
                                  type |-> "tool_execution",
                                  function |-> all[i].name,
                                  arguments |-> all[i].args]
    /\ Len(toolRuns) = Len(Started)
    /\ \A i \in 1..Len(toolRuns) :
           /\ toolRuns[i].name = Started[i].name
           /\ toolRuns[i].args = Started[i].args
    /\ Len(Batches) <= Len(ToolEvents)
    /\ HandlingCalls => Len(Batches) < Len(ToolEvents)

\* an unregistered call and a registered one were announced, the second is
\* running and no batch has been sent
C15_Witness ==
    /\ spc = "to_thread"
    /\ Len(ClientTextFrames) = 2
    /\ ClientTextFrames[1].function = "deploy_code"
    /\ ClientTextFrames[2].function \in AVAILABLE_TOOLS
    /\ Len(toolRuns) = 1
    /\ Batches = <<>>

\* a tool started by send_to_client has not returned
ToolRunning ==
    /\ spc = "to_thread"
    /\ task_state["send_to_client"] = "running"
    /\ ~must_cancel["send_to_client"]

\* receive_from_client is reading and the input is not exhausted
ClientCanSend ==
    /\ rpc = "receive"
    /\ task_state["receive_from_client"] = "running"
    /\ ~must_cancel["receive_from_client"]
    /\ rxCount + evSize < MaxInputs

\* the upstream session has another event that the input size allows
UpstreamCanSend ==
    \E ev \in ServerEvents : rxCount + evSize + EventSize(ev) <= MaxInputs

\* a client audio frame is received and forwarded upstream
ForwardsClientAudio ==
    /\ RecvMessage
    /\ "bytes" \in DOMAIN message'
    /\ upstream' = Append(upstream, AudioSend(message'.bytes))

\* C16 as stated: while a tool invocation is running, client audio frames
\* are forwarded upstream and upstream events that arrive are processed
\* before the tool returns; only the event's batch waits for the tool.
C16_NothingWaitsForTool ==
    ToolRunning
      => /\ ClientCanSend => ENABLED ForwardsClientAudio
         /\ UpstreamCanSend => ENABLED SendEvent
         /\ Len(Batches) = Len(ToolEvents) - 1

\* C16 amended: while a tool invocation is running, client audio frames are
\* forwarded upstream; send_to_client itself waits for the tool, so it reads
\* no further upstream event, sends nothing to the client and sends no
\* batch until the tool returns.
C16_OnlyClientAudioContinues ==
    ToolRunning
      => /\ ClientCanSend => ENABLED ForwardsClientAudio
         /\ ~ENABLED SendEvent
         /\ ~ENABLED SendStreamEnd
         /\ ~ENABLED SendBytesSent
         /\ ~ENABLED SendTextSent
         /\ ~ENABLED ToolResponseSent
         /\ ENABLED ToolReturned
         /\ Len(Batches) = Len(ToolEvents) - 1

\* a tool is running, a client audio frame is on its way upstream meanwhile
\* and the upstream session has a further event to deliver
C16_Witness ==
    /\ ToolRunning
    /\ rpc = "send_audio"
    /\ task_state["receive_from_client"] = "running"
    /\ UpAudio # <<>>
    /\ UpstreamCanSend

\* no step of task t: its own variables are as they were
Untouched(t) ==
    IF t = "receive_from_client"
    THEN UNCHANGED rvars
    ELSE UNCHANGED <<tvars, toClient>>

\* no shutdown reason is recorded or changed
ReasonsKept == UNCHANGED <<shutdown_reason, session_shutdown_reason>>

\* the handler was cancelled while both loops ran: both ended cancelled
\* (initiate_shutdown never cancels its caller)
BothLoopsCancelled == \A t \in Tasks : task_state[t] = "cancelled"

\* C17: cancellation is never swallowed.  A loop with a cancellation
\* requested does nothing but end in the cancelled state: it does not call
\* initiate_shutdown and no reason changes.  A cancellation of the handler
\* while the loops run requests the cancellation of every loop still
\* running, and when the handler has finished after that, the upstream
\* session is closed and the handler has ended cancelled.
C17_CancellationPropagates ==
    /\ [](/\ handler_cancelled /\ hpc = "gather"
               => \A t \in Tasks : TaskDone(t) \/ must_cancel[t]
          /\ BothLoopsCancelled /\ hpc = "done"
               => /\ handler_result = "cancelled"
                  /\ session_closes = 1)
    /\ [][\A t \in Tasks :
            /\ must_cancel[t] /\ task_state[t] = "running"
                 => \/ task_state'[t] = "running" /\ Untouched(t)
                    \/ task_state'[t] = "cancelled" /\ ReasonsKept
            /\ task_state[t] # "cancelled" /\ task_state'[t] = "cancelled"
                 => must_cancel[t] /\ ReasonsKept]_vars

\* a step of receive_from_client / of send_to_client after their creation
RecvStep ==
    /\ hpc' = hpc
    /\ \/ rvars' # rvars
       \/ task_state'["receive_from_client"] # task_state["receive_from_client"]

SendLoopStep ==
    /\ hpc' = hpc
    /\ \/ tvars' # tvars
       \/ toClient' # toClient
       \/ task_state'["send_to_client"] # task_state["send_to_client"]

\* the step makes at most one call on the upstream session, of kind `op`
UpstreamCallOnly(op) ==
    \/ upstream' = upstream
    \/ /\ Len(upstream') = Len(upstream) + 1
       /\ SubSeq(upstream', 1, Len(upstream)) = upstream
       /\ upstream'[Len(upstream')].op = op

\* C18: both loops send on the upstream session, but only send_to_client
\* reads events from it; receive_from_client never writes to the client
\* socket and send_to_client never reads from it.  A step of one loop
\* leaves the other loop's variables alone: what both write is the shutdown
\* state of initiate_shutdown.
C18_LoopsKeepToTheirSide ==
    [][/\ RecvStep
            => /\ UNCHANGED <<tvars, toClient>>
               /\ task_state'["send_to_client"] = task_state["send_to_client"]
               /\ UpstreamCallOnly("send")
       /\ SendLoopStep
            => /\ UNCHANGED rvars
               /\ task_state'["receive_from_client"]
                     = task_state["receive_from_client"]
               /\ UpstreamCallOnly("send_tool_response")]_vars

\* both loops have sent on the session, the client got a frame, and the
\* shutdown reason was recorded by one loop with the other cancelled
C18_Witness ==
    /\ UpAudio # <<>>
    /\ Batches # <<>>
    /\ toClient # <<>>
    /\ shutdown_reason \in LoopReasons
    /\ \E t \in Tasks : task_state[t] = "cancelled"

\* the utterances opened in the sends: audio sends that are the first send
\* or follow an end-of-turn signal
OpeningSends ==
    { i \in 1..Len(UpClient) :
        /\ IsAudioSend(UpClient[i])
        /\ i = 1 \/ IsEndOfTurnSend(UpClient[i - 1]) }

EndOfTurnSends == { i \in 1..Len(UpClient) : IsEndOfTurnSend(UpClient[i]) }

\* C19: in the sends the upstream session receives from the client loop the
\* first is never an end-of-turn signal and every end-of-turn signal comes
\* directly after a non-final audio send, so two signals are never adjacent
\* and the signals never outnumber the utterances opened; this for every
\* sequence of client frames, a disconnect included.
C19_EndOfTurnOnlyClosesUtterance ==
    /\ \A i \in EndOfTurnSends : i > 1 /\ IsAudioSend(UpClient[i - 1])
    /\ Cardinality(EndOfTurnSends) <= Cardinality(OpeningSends)

\* two utterances, the first closed by end_turn and the second by the
\* client's disconnect, with a stray end_turn frame in between
C19_Witness ==
    /\ Len(UpClient) = 4
    /\ EndOfTurnSends = {2, 4}
    /\ FinalizedOnDisconnect

\* C20: once a shutdown reason has been recorded by initiate_shutdown
\* neither loop forwards anything more: no call is made on the upstream
\* session (audio, end-of-turn signal, tool-response batch) and no frame is
\* sent to the client from then on.
C20_NoForwardingAfterShutdown ==
    [][(shutdown_reason \in LoopReasons)
         => upstream' = upstream /\ toClient' = toClient]_vars

\* the reason was recorded while the other loop was in the middle of
\* forwarding: that loop was cancelled at its pending send
C20_Witness ==
    /\ shutdown_reason \in LoopReasons
    /\ \/ /\ task_state["send_to_client"] = "cancelled"
          /\ spc \in {"send_bytes", "send_text", "to_thread"}
       \/ /\ task_state["receive_from_client"] = "cancelled"
          /\ rpc = "send_audio"

====
